---- MODULE Spec2Model ----
(***************************************************************************)
(* Model of the kernel core of src/hola.py: ProcessScheduler (ready queue, *)
(* running slot, quantum, termination) and MemoryManager (page map,        *)
(* available memory).  Every public method is one atomic action.           *)
(***************************************************************************)
EXTENDS Integers, Sequences, FiniteSets, TLC

\* ------------------------------------------------------------------ bounds
\* Number of create_process calls explored.
MaxProcs == 3
\* Priorities handed to create_process are 1..MaxPriority.
MaxPriority == 2
\* total_memory handed to MemoryManager.__init__, in pages.
TotalPages == 3

\* ------------------------------------------------------- program constants
\* ProcessScheduler.quantum
quantum == 3
\* cpu_time_used at which execute_cycle terminates the process
cpu_limit == 5
\* MemoryManager.page_size
page_size == 4096
\* ProcessScheduler.next_pid after construction
first_pid == 1

\* Python's None for the running slot and for "no process returned".
None == 0

\* ProcessState members (the enum member names).
PS_NEW == "NEW"
PS_READY == "READY"
PS_RUNNING == "RUNNING"
PS_WAITING == "WAITING"
PS_TERMINATED == "TERMINATED"
ProcessState == {PS_NEW, PS_READY, PS_RUNNING, PS_WAITING, PS_TERMINATED}

Priorities == 1..MaxPriority
\* pids a caller may pass to terminate_process / free_memory / allocate_memory
\* (one more than can ever be created, so that an unknown pid is covered).
Pids == first_pid..(first_pid + MaxProcs)

VARIABLES
    \* ProcessScheduler
    processes,        \* pid -> [priority, state, cpu_time_used]
    ready_queue,      \* sequence of pids (references to Process objects)
    running_process,  \* pid or None
    next_pid,
    assigned,         \* history: the pids returned by create_process, in order
    \* MemoryManager
    memory_map,       \* page_id -> owning pid
    available_memory,
    mem_last,         \* outcome of the last memory call: [error, pages returned]
    issued            \* history: every page id returned by allocate_memory so far

sched_vars == <<processes, ready_queue, running_process, next_pid, assigned>>
mem_vars == <<memory_map, available_memory, mem_last, issued>>
vars == <<processes, ready_queue, running_process, next_pid, assigned,
          memory_map, available_memory, mem_last, issued>>

total_memory == TotalPages * page_size

\* ---------------------------------------------------------------- helpers
Range(s) == {s[i] : i \in 1..Len(s)}

InQueue(p) == \E i \in 1..Len(ready_queue) : ready_queue[i] = p

\* Process.__init__ : state PS_NEW, cpu_time_used 0.
Process(priority) == [priority |-> priority, state |-> PS_NEW, cpu_time_used |-> 0]

\* Mutant of Before: reverse=True forgotten, the sort ascends.
BeforeAscending(procs, a, b) == procs[a].priority < procs[b].priority

\* Mutant of Before: >= for >, the sort is no longer stable.
BeforeOrEqual(procs, a, b) == procs[a].priority >= procs[b].priority

\* The sort key order of sorted(..., key=priority, reverse=True): a goes
\* strictly before b.
Before(procs, a, b) == procs[a].priority > procs[b].priority

\* Insert x into the sorted sequence s after every element that does not go
\* strictly after it (keeps the sort stable).
RECURSIVE InsertSorted(_, _, _)
InsertSorted(procs, s, x) ==
    IF s = <<>> THEN <<x>>
    ELSE IF Before(procs, x, Head(s)) THEN <<x>> \o s
    ELSE <<Head(s)>> \o InsertSorted(procs, Tail(s), x)

\* sorted(self.ready_queue, key=lambda x: x.priority, reverse=True):
\* stable sort, priority descending.
RECURSIVE SortedFrom(_, _, _)
SortedFrom(procs, acc, q) ==
    IF q = <<>> THEN acc
    ELSE SortedFrom(procs, InsertSorted(procs, acc, Head(q)), Tail(q))

sorted_queue(procs, q) == SortedFrom(procs, <<>>, q)

\* Mutant of KeepsRunning: the quantum test off by one.
KeepsRunningShort(procs, running) == procs[running].cpu_time_used + 1 < quantum

\* The quantum test of schedule(): the running process keeps the CPU.
KeepsRunning(procs, running) == procs[running].cpu_time_used < quantum

\* Mutant of Demote: the state of the preempted process is left as it was.
DemoteKeepsState(procs, running) == procs

\* schedule(), lines 50-51: the running process whose quantum is used up
\* goes back to READY ...
Demote(procs, running) == [procs EXCEPT ![running].state = PS_READY]

\* Mutant of Requeue: the preempted process is not put back in the queue.
RequeueDrops(queue, running) == queue

\* ... and to the back of the ready queue.
Requeue(queue, running) == Append(queue, running)

\* ProcessScheduler.schedule as a function of the scheduler's fields: the
\* fields afterwards and the process returned.  A Process object is always
\* truthy, so "if self.running_process" is the test against None.
schedule(procs, queue, running) ==
    IF running # None /\ KeepsRunning(procs, running)
    THEN [processes |-> procs, ready_queue |-> queue,
          running_process |-> running, ret |-> running]
    ELSE
      LET procs1 == IF running # None THEN Demote(procs, running) ELSE procs
          queue1 == IF running # None THEN Requeue(queue, running) ELSE queue
      IN  IF queue1 # <<>>
          THEN LET sq == sorted_queue(procs1, queue1)
                   next_process == Head(sq)
               IN  [processes |-> [procs1 EXCEPT ![next_process].state = PS_RUNNING],
                    ready_queue |-> Tail(sq),
                    running_process |-> next_process,
                    ret |-> next_process]
          ELSE [processes |-> procs1, ready_queue |-> queue1,
                running_process |-> running, ret |-> None]

\* Mutant of terminate: the running slot is cleared whoever is terminated.
TerminateClearsSlot(procs, running, pid) ==
    IF pid \in DOMAIN procs
    THEN [processes |-> [procs EXCEPT ![pid].state = PS_TERMINATED],
          running_process |-> None]
    ELSE [processes |-> procs, running_process |-> running]

\* ProcessScheduler.terminate_process as a function of the fields.
terminate(procs, running, pid) ==
    IF pid \in DOMAIN procs
    THEN [processes |-> [procs EXCEPT ![pid].state = PS_TERMINATED],
          running_process |-> IF running # None /\ running = pid THEN None ELSE running]
    ELSE [processes |-> procs, running_process |-> running]

\* Mutant of ReachedLimit: > for >=.
ReachedLimitLate(cpu_time_used) == cpu_time_used > cpu_limit

\* execute_cycle(), line 67: the process has run to completion.
ReachedLimit(cpu_time_used) == cpu_time_used >= cpu_limit

\* ProcessScheduler.execute_cycle as a function of the scheduler's fields:
\* the fields afterwards and the process that got the tick (None: idle).
execute_cycle(procs, queue, running) ==
    LET r == schedule(procs, queue, running)
        current_process == r.ret
    IN  IF current_process # None
        THEN LET procs1 == [r.processes EXCEPT
                              ![current_process].cpu_time_used = @ + 1]
             IN  IF ReachedLimit(procs1[current_process].cpu_time_used)
                 THEN LET t == terminate(procs1, r.running_process, current_process)
                      IN  [processes |-> t.processes, ready_queue |-> r.ready_queue,
                           running_process |-> t.running_process,
                           ret |-> current_process]
                 ELSE [processes |-> procs1, ready_queue |-> r.ready_queue,
                       running_process |-> r.running_process,
                       ret |-> current_process]
        ELSE [processes |-> r.processes, ready_queue |-> r.ready_queue,
              running_process |-> r.running_process, ret |-> None]

\* Mutant of NextPidAfter: the counter is not advanced.
NextPidSame(pid) == pid

\* The pid counter after create_process.
NextPidAfter(pid) == pid + 1

\* ---------------------------------------------------------- MemoryManager
\* Sizes (bytes) handed to allocate_memory: zero, one byte, the 5000 bytes
\* of the documented scenario, whole pages and one byte over, up to one
\* byte more than the whole memory.
Sizes == {0, 1, 5000} \cup {k * page_size : k \in 1..TotalPages}
                      \cup {k * page_size + 1 : k \in 1..TotalPages}

\* Mutant of Insufficient: >= for >.
InsufficientOrEqual(size, available) == size >= available

\* allocate_memory(), line 88: the request is refused.
Insufficient(size, available) == size > available

\* Mutant of pages_needed: size // page_size + 1 for the ceiling.
PagesNeededPlusOne(size) == size \div page_size + 1

\* allocate_memory(), line 90.
pages_needed(size) == (size + page_size - 1) \div page_size

\* allocate_memory(), line 93: the id given to the next page.
NewPageId(map) == Cardinality(DOMAIN map)

\* allocate_memory(), lines 92-95: the loop, from iteration i on; map is
\* the page map so far and pages the ids appended so far.
RECURSIVE AllocLoop(_, _, _, _, _)
AllocLoop(map, pages, i, n, pid) ==
    IF i >= n THEN [memory_map |-> map, pages |-> pages]
    ELSE LET page_id == NewPageId(map)
         IN  AllocLoop((page_id :> pid) @@ map, Append(pages, page_id), i + 1, n, pid)

\* allocate_memory(), line 96.
Deduct(available, n) == available - n * page_size

\* MemoryManager.allocate_memory as a function of the manager's fields: the
\* fields afterwards, the error raised ("none": returned normally) and the
\* list returned.
allocate_memory(map, available, pid, size) ==
    IF Insufficient(size, available)
    THEN [memory_map |-> map, available_memory |-> available,
          error |-> "MemoryError", pages |-> <<>>]
    ELSE LET n == pages_needed(size)
             r == AllocLoop(map, <<>>, 0, n, pid)
         IN  [memory_map |-> r.memory_map,
              available_memory |-> Deduct(available, n),
              error |-> "none", pages |-> r.pages]

\* Mutant of pages_to_free: the page id is compared instead of the owner.
PagesToFreeById(map, process_pid) == {page_id \in DOMAIN map : page_id = process_pid}

\* free_memory(), line 101.
pages_to_free(map, process_pid) == {page_id \in DOMAIN map : map[page_id] = process_pid}

\* MemoryManager.free_memory as a function of the manager's fields.
free_memory(map, available, process_pid) ==
    LET freed == pages_to_free(map, process_pid)
    IN  [memory_map |-> [page_id \in DOMAIN map \ freed |-> map[page_id]],
         available_memory |-> available + page_size * Cardinality(freed)]

\* ------------------------------------------------------------------ Init
Init ==
    /\ processes = <<>>
    /\ ready_queue = <<>>
    /\ running_process = None
    /\ next_pid = first_pid
    /\ assigned = <<>>
    /\ memory_map = <<>>
    /\ available_memory = total_memory
    /\ mem_last = [error |-> "none", pages |-> <<>>]
    /\ issued = {}

\* ------------------------------------------------------- scheduler actions
CreateProcess(priority) ==
    /\ Len(assigned) < MaxProcs
    /\ LET pid == next_pid
           process == [Process(priority) EXCEPT !.state = PS_READY]
       IN  /\ processes' = (pid :> process) @@ processes
           /\ next_pid' = NextPidAfter(pid)
           /\ ready_queue' = Append(ready_queue, pid)
           /\ assigned' = Append(assigned, pid)
    /\ UNCHANGED <<running_process, mem_vars>>

Schedule ==
    /\ LET r == schedule(processes, ready_queue, running_process)
       IN  /\ processes' = r.processes
           /\ ready_queue' = r.ready_queue
           /\ running_process' = r.running_process
    /\ UNCHANGED <<next_pid, assigned, mem_vars>>

ExecuteCycle ==
    /\ LET r == execute_cycle(processes, ready_queue, running_process)
       IN  /\ processes' = r.processes
           /\ ready_queue' = r.ready_queue
           /\ running_process' = r.running_process
    /\ UNCHANGED <<next_pid, assigned, mem_vars>>

TerminateProcess(pid) ==
    /\ LET t == terminate(processes, running_process, pid)
       IN  /\ processes' = t.processes
           /\ running_process' = t.running_process
    /\ UNCHANGED <<ready_queue, next_pid, assigned, mem_vars>>

\* --------------------------------------------------------- memory actions
AllocateMemory(pid, size) ==
    /\ LET r == allocate_memory(memory_map, available_memory, pid, size)
       IN  /\ memory_map' = r.memory_map
           /\ available_memory' = r.available_memory
           /\ mem_last' = [error |-> r.error, pages |-> r.pages]
           /\ issued' = issued \cup Range(r.pages)
    /\ UNCHANGED sched_vars

FreeMemory(process_pid) ==
    /\ LET r == free_memory(memory_map, available_memory, process_pid)
       IN  /\ memory_map' = r.memory_map
           /\ available_memory' = r.available_memory
    /\ mem_last' = [error |-> "none", pages |-> <<>>]
    /\ UNCHANGED <<issued, sched_vars>>

NextSched ==
    \/ \E priority \in Priorities : CreateProcess(priority)
    \/ Schedule
    \/ ExecuteCycle
    \/ \E pid \in Pids : TerminateProcess(pid)

NextMem ==
    \/ \E pid \in Pids, size \in Sizes : AllocateMemory(pid, size)
    \/ \E pid \in Pids : FreeMemory(pid)

\* NexusOS.run_simulation: every process is created before the first cycle.
SimCreate(priority) ==
    /\ \A p \in DOMAIN processes : processes[p].cpu_time_used = 0
    /\ running_process = None
    /\ CreateProcess(priority)

NextSim ==
    \/ \E priority \in Priorities : SimCreate(priority)
    \/ ExecuteCycle

\* The size create_process records as memory_required when the caller
\* gives none (its default argument).
default_memory == 1024

\* The number of processes followed through a life with memory.
LifeProcs == 2

\* create_process, for at most LifeProcs processes.
LifeCreate(priority) ==
    /\ Len(assigned) < LifeProcs
    /\ CreateProcess(priority)

\* A process's life with its memory: processes are created, get ticks, are
\* terminated from outside or run to the end, and the caller allocates
\* memory_required bytes for a process of the table and frees the pages of
\* one, in any order.
NextLife ==
    \/ \E priority \in Priorities : LifeCreate(priority)
    \/ ExecuteCycle
    \/ \E pid \in Pids : TerminateProcess(pid)
    \/ \E pid \in DOMAIN processes : AllocateMemory(pid, default_memory)
    \/ \E pid \in DOMAIN processes : FreeMemory(pid)

\* The simulation's loop keeps calling execute_cycle.
SimFairness == WF_vars(ExecuteCycle)

Next == NextSched \/ NextMem

\* The scheduler alone, the memory manager alone (the two objects share no
\* field), the simulation driver, and the whole system.
SpecSched == Init /\ [][NextSched]_vars
SpecMem == Init /\ [][NextMem]_vars
SpecSim == Init /\ [][NextSim]_vars
SpecSimFair == Init /\ [][NextSim]_vars /\ SimFairness
SpecLife == Init /\ [][NextLife]_vars
Spec == Init /\ [][Next]_vars

\* ================================================================ claims

\* The live pages owned by pid.
Owned(map, pid) == {page_id \in DOMAIN map : map[page_id] = pid}

\* ceil(size / page_size), by its definition on the non-negative integers.
CeilPages(size) ==
    CHOOSE n \in 0..(size + 1) : n * page_size >= size /\ (n - 1) * page_size < size

\* C1: memory conservation: in every reachable state
\* available_memory + 4096 * (number of live pages) = total_memory.
C1_Conservation ==
    available_memory + page_size * Cardinality(DOMAIN memory_map) = total_memory

\* C2: page ids are never reused: every id a successful allocate_memory
\* returns is greater than every id issued before, and the ids of one call
\* are strictly increasing.
C2_IdsNeverReused ==
    [][\A pid \in Pids, size \in Sizes :
          (AllocateMemory(pid, size) /\ mem_last'.error = "none") =>
             /\ \A i \in 1..Len(mem_last'.pages) :
                  \A old \in issued : mem_last'.pages[i] > old
             /\ \A i, j \in 1..Len(mem_last'.pages) :
                  i < j => mem_last'.pages[i] < mem_last'.pages[j]]_vars

StateOf(p) == processes[p].state
CpuOf(p) == processes[p].cpu_time_used
PriorityOf(p) == processes[p].priority

\* C3: at most one process is RUNNING, and a RUNNING process is the one in
\* the running slot.
C3_OneRunning ==
    /\ Cardinality({p \in DOMAIN processes : StateOf(p) = PS_RUNNING}) <= 1
    /\ \A p \in DOMAIN processes : StateOf(p) = PS_RUNNING => running_process = p

\* C3 witness: a process runs while another one is READY in the queue and
\* a third one has been terminated.
C3_Witness ==
    /\ running_process # None
    /\ StateOf(running_process) = PS_RUNNING
    /\ \E q \in DOMAIN processes : StateOf(q) = PS_READY /\ InQueue(q)
    /\ \E q \in DOMAIN processes : StateOf(q) = PS_TERMINATED

\* C4: a TERMINATED process is never re-enqueued: it stays TERMINATED, is
\* never put in the running slot nor appended to the ready queue, and no
\* TERMINATED process is a member of the ready queue.
C4_TerminatedNeverRequeued ==
    /\ [](\A p \in DOMAIN processes : StateOf(p) = PS_TERMINATED => ~InQueue(p))
    /\ [][\A p \in DOMAIN processes :
            StateOf(p) = PS_TERMINATED =>
               /\ processes'[p].state = PS_TERMINATED
               /\ running_process' # p
               /\ (InQueue(p)' => InQueue(p))]_vars

\* C5: the pids create_process hands out are strictly increasing, hence
\* unique, whatever happened to the earlier processes.
C5_PidsIncreasing ==
    /\ \A i, j \in 1..Len(assigned) : i < j => assigned[i] < assigned[j]
    /\ DOMAIN processes = Range(assigned)
    /\ \A i \in 1..Len(assigned) : assigned[i] < next_pid

\* C5 witness: a process was created after an earlier one ran to its end.
C5_Witness ==
    /\ Len(assigned) >= 2
    /\ StateOf(assigned[1]) = PS_TERMINATED
    /\ CpuOf(assigned[1]) = cpu_limit
    /\ CpuOf(assigned[Len(assigned)]) > 0

\* C6: the step that raises cpu_time_used to 5 leaves the process
\* TERMINATED and the running slot empty; no process with cpu_time_used >= 5
\* is RUNNING, READY, queued or in the running slot, and cpu_time_used
\* never exceeds 5.
C6_Termination ==
    /\ [](\A p \in DOMAIN processes :
            /\ CpuOf(p) <= cpu_limit
            /\ CpuOf(p) >= cpu_limit =>
                 /\ StateOf(p) = PS_TERMINATED
                 /\ running_process # p
                 /\ ~InQueue(p))
    /\ [][\A p \in DOMAIN processes :
            (CpuOf(p) < cpu_limit /\ processes'[p].cpu_time_used >= cpu_limit) =>
               /\ processes'[p].state = PS_TERMINATED
               /\ running_process' = None]_vars

\* C6 witness: a process ran to cpu_time_used 5 while another is queued.
C6_Witness ==
    /\ \E p \in DOMAIN processes : CpuOf(p) = cpu_limit /\ StateOf(p) = PS_TERMINATED
    /\ running_process = None
    /\ ready_queue # <<>>

\* C8: while the running process has cpu_time_used < 3, schedule() returns
\* it and changes nothing, whatever waits in the ready queue; and every step
\* other than terminate_process on it leaves it RUNNING in the slot, an
\* execute_cycle adding exactly 1 to its cpu_time_used.
C8_QuantumContinuity ==
    /\ [](running_process # None /\ CpuOf(running_process) < quantum =>
            LET r == schedule(processes, ready_queue, running_process)
            IN  /\ r.ret = running_process
                /\ r.processes = processes
                /\ r.ready_queue = ready_queue
                /\ r.running_process = running_process)
    /\ [][(/\ running_process # None
           /\ CpuOf(running_process) < quantum
           /\ ~TerminateProcess(running_process)) =>
             /\ running_process' = running_process
             /\ processes'[running_process].state = PS_RUNNING
             /\ ExecuteCycle =>
                  /\ processes'[running_process].cpu_time_used = CpuOf(running_process) + 1
                  /\ ready_queue' = ready_queue]_vars

\* C8 witness: a process that started at 0 has reached cpu_time_used 3 and
\* is still RUNNING in the slot, while a READY process of strictly higher
\* priority, created later, waits in the queue.
C8_Witness ==
    /\ running_process # None
    /\ CpuOf(running_process) = quantum
    /\ StateOf(running_process) = PS_RUNNING
    /\ \E q \in DOMAIN processes :
         /\ q > running_process
         /\ InQueue(q)
         /\ StateOf(q) = PS_READY
         /\ PriorityOf(q) > PriorityOf(running_process)

\* C9: in the simulation (all processes created before the first cycle, no
\* later creation, no outside termination) a process holds the running slot
\* only when every process of strictly higher priority has run to
\* cpu_time_used 5 and is TERMINATED.
C9_PriorityOrder ==
    \A p \in DOMAIN processes :
        (StateOf(p) = PS_RUNNING \/ running_process = p \/ CpuOf(p) > 0) =>
            \A q \in DOMAIN processes :
                PriorityOf(q) > PriorityOf(p) =>
                    StateOf(q) = PS_TERMINATED /\ CpuOf(q) = cpu_limit

\* C9 witness: B (priority 1, created second) runs after A (priority 2,
\* created first) terminated at cpu_time_used 5.
C9_Witness ==
    /\ Len(assigned) >= 2
    /\ PriorityOf(assigned[1]) = 2 /\ PriorityOf(assigned[2]) = 1
    /\ StateOf(assigned[1]) = PS_TERMINATED /\ CpuOf(assigned[1]) = cpu_limit
    /\ running_process = assigned[2] /\ StateOf(assigned[2]) = PS_RUNNING

\* C7: in every reachable state and for every request,
\* allocate_memory(p, size) raises MemoryError exactly when
\* size > available_memory (raw bytes), and then leaves the page map and
\* available_memory as they were and returns nothing.
C7_AllocationFailure ==
    \A pid \in Pids, size \in Sizes :
        LET r == allocate_memory(memory_map, available_memory, pid, size)
        IN  /\ (r.error = "MemoryError") <=> (size > available_memory)
            /\ size > available_memory =>
                 /\ r.memory_map = memory_map
                 /\ r.available_memory = available_memory
                 /\ r.pages = <<>>

\* C7 witness: a request was refused while pages are live and memory is
\* left (a request below the page-rounded cost of what is left passes, so
\* the refused one asked for more bytes than are available).
C7_Witness ==
    /\ mem_last.error = "MemoryError"
    /\ memory_map # <<>>
    /\ available_memory > 0

\* C10: a successful allocate_memory(p, size) with 0 < size <=
\* available_memory returns exactly ceil(size / 4096) page ids, takes
\* ceil(size / 4096) * 4096 off available_memory, and the number of live
\* pages owned by p grows by exactly that count.
C10_AllocationSuccess ==
    [][\A pid \in Pids, size \in Sizes :
          (AllocateMemory(pid, size) /\ 0 < size /\ size <= available_memory) =>
             /\ mem_last'.error = "none"
             /\ Len(mem_last'.pages) = CeilPages(size)
             /\ Cardinality(Range(mem_last'.pages)) = CeilPages(size)
             /\ available_memory' = available_memory - CeilPages(size) * page_size
             /\ Cardinality(Owned(memory_map', pid)) =
                  Cardinality(Owned(memory_map, pid)) + CeilPages(size)]_vars


\* C13: in every reachable state and for every pid, free_memory(pid)
\* removes exactly the pages owned by pid, leaves every other page with its
\* owner, adds 4096 per removed page to available_memory, changes nothing
\* when pid owns no page, and is idempotent.
C13_FreeMemory ==
    \A pid \in Pids :
        LET r == free_memory(memory_map, available_memory, pid)
            gone == Owned(memory_map, pid)
        IN  /\ Owned(r.memory_map, pid) = {}
            /\ DOMAIN r.memory_map = DOMAIN memory_map \ gone
            /\ \A page_id \in DOMAIN r.memory_map :
                 r.memory_map[page_id] = memory_map[page_id]
            /\ r.available_memory = available_memory + page_size * Cardinality(gone)
            /\ gone = {} =>
                 r.memory_map = memory_map /\ r.available_memory = available_memory
            /\ free_memory(r.memory_map, r.available_memory, pid) = r

\* C13 witness: a free has removed the pages of one process (ids issued
\* earlier are gone) while pages of another process are still live.
C13_Witness ==
    /\ mem_last = [error |-> "none", pages |-> <<>>]
    /\ \E page_id \in issued : page_id \notin DOMAIN memory_map
    /\ memory_map # <<>>
    /\ available_memory = total_memory - page_size * Cardinality(DOMAIN memory_map)

\* C19: a successful allocate_memory(p, size) leaves every live page of
\* another process in the map with its owner, and the ids it returns are
\* pairwise distinct and were not live before the call.
C19_AllocationIsolation ==
    \A pid \in Pids, size \in Sizes :
        LET r == allocate_memory(memory_map, available_memory, pid, size)
        IN  r.error = "none" =>
              /\ \A page_id \in DOMAIN memory_map :
                   memory_map[page_id] # pid =>
                      /\ page_id \in DOMAIN r.memory_map
                      /\ r.memory_map[page_id] = memory_map[page_id]
              /\ Cardinality(Range(r.pages)) = Len(r.pages)
              /\ \A i \in 1..Len(r.pages) : r.pages[i] \notin DOMAIN memory_map

\* C20: with total_memory a multiple of the page size and sizes >= 0,
\* available_memory stays a multiple of 4096 between 0 and total_memory.
C20_AvailableBounds ==
    /\ available_memory % page_size = 0
    /\ 0 <= available_memory
    /\ available_memory <= total_memory

\* C20 witness: the memory is used up to the last byte after a request that
\* was granted.
C20_Witness ==
    /\ available_memory = 0
    /\ mem_last.error = "none"
    /\ mem_last.pages # <<>>


\* C12: terminate_process(pid) with an unknown pid changes nothing (the
\* function has no error path); with a known pid it sets that process to
\* TERMINATED, keeps its other fields, leaves every other process as it was
\* and empties the running slot exactly when pid was in it; the ready queue
\* and the pid counter are never touched.
C12_TerminateProcess ==
    /\ [](\A pid \in Pids :
            LET t == terminate(processes, running_process, pid)
            IN  IF pid \notin DOMAIN processes
                THEN t.processes = processes /\ t.running_process = running_process
                ELSE /\ DOMAIN t.processes = DOMAIN processes
                     /\ t.processes[pid] = [processes[pid] EXCEPT !.state = PS_TERMINATED]
                     /\ \A q \in DOMAIN processes \ {pid} : t.processes[q] = processes[q]
                     /\ t.running_process =
                          IF running_process = pid THEN None ELSE running_process)
    /\ [][(ready_queue' # ready_queue \/ next_pid' # next_pid)
            => ~ \E pid \in Pids : TerminateProcess(pid)]_vars

\* C12 witness: a process was terminated from outside (before its
\* cpu_time_used reached 5) while another process holds the running slot.
C12_Witness ==
    /\ running_process # None
    /\ StateOf(running_process) = PS_RUNNING
    /\ \E p \in DOMAIN processes :
         /\ p # running_process
         /\ StateOf(p) = PS_TERMINATED
         /\ CpuOf(p) < cpu_limit
         /\ ~InQueue(p)

\* The queue schedule() sorts when it makes a new selection: the ready queue
\* with the demoted process, if any, at the back.
C14_Candidates ==
    IF running_process # None THEN Append(ready_queue, running_process) ELSE ready_queue

\* C14: when schedule() makes a new selection (no running process, or one
\* with cpu_time_used >= 3, which is appended to the queue first), the
\* process it installs as RUNNING has the highest priority in that queue and
\* is the first of that priority in queue order (arrival order: processes
\* enter at the back and the stable sort keeps equal priorities in order);
\* the demoted process is selected again only if every other queued process
\* has a strictly lower priority.
C14_SelectionRule ==
    ((running_process = None \/ CpuOf(running_process) >= quantum)
       /\ C14_Candidates # <<>>) =>
    LET r == schedule(processes, ready_queue, running_process)
        q == C14_Candidates
    IN  /\ r.ret # None
        /\ r.running_process = r.ret
        /\ r.processes[r.ret].state = PS_RUNNING
        /\ \E i \in 1..Len(q) :
             /\ q[i] = r.ret
             /\ \A j \in 1..Len(q) : PriorityOf(q[j]) <= PriorityOf(r.ret)
             /\ \A j \in 1..(i - 1) : PriorityOf(q[j]) < PriorityOf(r.ret)
        /\ Len(r.ready_queue) = Len(q) - 1
        /\ Range(r.ready_queue) = Range(q) \ {r.ret}
        /\ (running_process # None /\ r.ret = running_process) =>
             \A j \in 1..Len(ready_queue) :
                 PriorityOf(ready_queue[j]) < PriorityOf(running_process)

\* C14 witness: a process whose quantum ran out waits READY in the queue
\* while a peer of the same priority, which got the CPU ahead of it, runs.
C14_Witness ==
    /\ running_process # None
    /\ CpuOf(running_process) >= 1
    /\ \E p \in DOMAIN processes :
         /\ p # running_process
         /\ InQueue(p)
         /\ StateOf(p) = PS_READY
         /\ CpuOf(p) >= quantum
         /\ PriorityOf(p) = PriorityOf(running_process)

\* The edges of the process state machine (NEW -> READY happens inside
\* create_process).
C15_Edges ==
    {<<PS_READY, PS_RUNNING>>, <<PS_RUNNING, PS_READY>>,
     <<PS_RUNNING, PS_TERMINATED>>, <<PS_READY, PS_TERMINATED>>}

\* C15: every change of a process's state follows an edge of
\* NEW -> READY -> RUNNING <-> READY -> TERMINATED (or RUNNING -> TERMINATED);
\* a created process is READY, no process is ever WAITING, and no process
\* leaves TERMINATED.
C15_StateMachine ==
    /\ [](\A p \in DOMAIN processes : StateOf(p) # PS_WAITING /\ StateOf(p) # PS_NEW)
    /\ [][/\ \A p \in DOMAIN processes :
               processes'[p].state # StateOf(p) =>
                  <<StateOf(p), processes'[p].state>> \in C15_Edges
          /\ \A p \in DOMAIN processes' \ DOMAIN processes :
               processes'[p].state = PS_READY]_vars


\* C17: each time a new selection installs a process in the running slot,
\* that process gets the next 3 consecutive ticks (the selecting
\* execute_cycle and the two after it) and holds the slot between them,
\* unless it terminates first; also on its second and later slices.
C17_FixedQuantum ==
    ((running_process = None \/ CpuOf(running_process) >= quantum)
       /\ C14_Candidates # <<>>) =>
    LET r1 == execute_cycle(processes, ready_queue, running_process)
        p == r1.ret
        r2 == execute_cycle(r1.processes, r1.ready_queue, r1.running_process)
        r3 == execute_cycle(r2.processes, r2.ready_queue, r2.running_process)
    IN  r1.processes[p].state # PS_TERMINATED =>
          /\ r1.running_process = p
          /\ r2.ret = p
          /\ r2.processes[p].state # PS_TERMINATED =>
               /\ r2.running_process = p
               /\ r3.ret = p
               /\ r3.processes[p].state # PS_TERMINATED => r3.running_process = p

\* cpu_time_used summed over the processes of set S.
RECURSIVE C18_SumCpu(_)
C18_SumCpu(S) ==
    IF S = {} THEN 0
    ELSE LET p == CHOOSE x \in S : TRUE
         IN  CpuOf(p) + C18_SumCpu(S \ {p})

C18_AllTerminated == \A p \in DOMAIN processes : StateOf(p) = PS_TERMINATED

C11_Terminates(p) ==
    /\ p \in DOMAIN processes
    /\ StateOf(p) # PS_TERMINATED
    /\ processes'[p].state = PS_TERMINATED

\* C11, first half: neither terminate_process(pid) nor an execute_cycle
\* that terminates a process changes the page map or available_memory.
C11_TerminationFrame ==
    [][(\/ \E pid \in Pids : TerminateProcess(pid)
        \/ ExecuteCycle
        \/ \E p \in DOMAIN processes : C11_Terminates(p))
       => UNCHANGED <<memory_map, available_memory>>]_vars

\* C11: termination does not free memory. Neither terminate_process(pid)
\* nor an execute_cycle that terminates a process changes the page map or
\* available_memory, and the pages owned by a TERMINATED process stay live,
\* owned by it, until free_memory(pid) is called for that process.
C11_TerminationKeepsMemory ==
    [][/\ (\/ \E pid \in Pids : TerminateProcess(pid)
           \/ ExecuteCycle
           \/ \E p \in DOMAIN processes : C11_Terminates(p))
          => UNCHANGED <<memory_map, available_memory>>
       /\ \A p \in DOMAIN processes :
            StateOf(p) = PS_TERMINATED
            => \/ Owned(memory_map, p) \subseteq Owned(memory_map', p)
               \/ FreeMemory(p)]_vars

\* C11: a process is TERMINATED and still owns a live page.
C11_TerminatedHoldsPages ==
    \E p \in DOMAIN processes :
        /\ StateOf(p) = PS_TERMINATED
        /\ Owned(memory_map, p) # {}

====
